---- MODULE Spec2Model ----
(***************************************************************************)
(* Model of the agent response-handling layer of src/agents/agents.py:     *)
(* ToolAgent (JSON function calls) and CodeAgent (restricted sandbox).     *)
(*                                                                         *)
(* A response is a sequence of lexemes (tokens); the text it stands for    *)
(* is the concatenation of the lexemes' texts:                             *)
(*   open   <tool_call>          close  </tool_call>       fence  ```      *)
(*   ws     one blank or newline (v = " " or "\n")                         *)
(*   text   a prose word v (letters only), e.g. python, json, Sure         *)
(*   lbrace { rbrace } lbrack [ rbrack ] comma , colon :                   *)
(*   dq     "v"   sq  'v'   dqa  "v" where v holds an apostrophe           *)
(*   bad    the text a dqa lexeme becomes once its ' is turned into "      *)
(*   num    the digits v       null   null                                 *)
(*   stmt   one line of Python source (CodeAgent responses)                *)
(***************************************************************************)
EXTENDS Integers, Sequences, FiniteSets, TLC

VARIABLES
    agent,            \* which class was constructed: "tool" or "code"
    tool_functions,   \* self.tool_functions: ordered <<key, function>> pairs
    sandbox_globals,  \* CodeAgent.sandbox_globals
    sandbox_locals,   \* CodeAgent.sandbox_locals
    cleared,          \* history: the names unbound by reset calls so far
    op,               \* the last step: "init", "handle", "consume" or "reset"
    response,         \* the argument of the current / last handle_response
    result,           \* what the last handle_response returned or raised
    invoked,          \* the tool functions the last call invoked, in order
    ran,              \* what the last CodeAgent call compiled and executed
    given,            \* history: the argument the constructor was given
    tools,            \* ToolAgent.tools: the list of JSON stubs
    loop              \* the conversation loop of weather-json.py

vars == <<agent, tool_functions, sandbox_globals, sandbox_locals, cleared, op,
          response, result, invoked, ran, given, tools, loop>>

(***************************************************************************)
(* Bounds of the model.                                                    *)
(***************************************************************************)
MaxBatch == 2
MaxStmts == 2

(***************************************************************************)
(* Python / JSON values.                                                   *)
(***************************************************************************)
JNull == [t |-> "null"]
JNum(n) == [t |-> "num", n |-> n]
JStr(s) == [t |-> "str", s |-> s]
JList(items) == [t |-> "list", items |-> items]
JObj(pairs) == [t |-> "obj", pairs |-> pairs]
Opaque == [t |-> "opaque"]

Tok(k, v) == [k |-> k, v |-> v]
Open == Tok("open", "<tool_call>")
Close == Tok("close", "</tool_call>")
Fence == Tok("fence", "FENCE")
Sp == Tok("ws", " ")
Nl == Tok("ws", "\n")
Word(w) == Tok("text", w)

Digits == <<"0", "1", "2", "3", "4", "5", "6", "7", "8", "9">>
NumStr(n) == Digits[n + 1]
NumOf(s) == CHOOSE n \in 0..9 : Digits[n + 1] = s

(***************************************************************************)
(* Sequence helpers.                                                       *)
(***************************************************************************)
Min(S) == CHOOSE m \in S : \A o \in S : m <= o
Max(S) == CHOOSE m \in S : \A o \in S : m >= o

RECURSIVE Flatten(_)
Flatten(ss) == IF ss = <<>> THEN <<>> ELSE Head(ss) \o Flatten(Tail(ss))

(***************************************************************************)
(* dict[k] = v on an insertion-ordered mapping kept as <<key, value>>      *)
(* pairs: an existing key keeps its place, a new key goes last.            *)
(***************************************************************************)
DictHas(d, k) == \E i \in 1..Len(d) : d[i][1] = k
DictGet(d, k) == d[CHOOSE i \in 1..Len(d) : d[i][1] = k][2]
DictSet(d, k, v) ==
    IF DictHas(d, k)
    THEN [i \in 1..Len(d) |-> IF d[i][1] = k THEN <<k, v>> ELSE d[i]]
    ELSE Append(d, <<k, v>>)
DictDel(d, k) == SelectSeq(d, LAMBDA p : p[1] # k)
DictKeys(d) == {d[i][1] : i \in 1..Len(d)}

(***************************************************************************)
(* json.loads on a lexeme sequence: a recursive-descent parser with        *)
(* whitespace allowed between lexemes.  Only double-quoted strings are     *)
(* JSON strings; sq, bad and text lexemes are syntax errors.               *)
(* A parse result is [ok, v, i]: i is the index after the value.           *)
(***************************************************************************)
RECURSIVE SkipWs(_, _)
SkipWs(toks, i) ==
    IF i <= Len(toks) /\ toks[i].k = "ws" THEN SkipWs(toks, i + 1) ELSE i

Fail == [ok |-> FALSE, v |-> JNull, i |-> 0]
IsStrTok(tok) == tok.k \in {"dq", "dqa"}

RECURSIVE ParseValue(_, _)
RECURSIVE ParseMembers(_, _, _)
RECURSIVE ParseItems(_, _, _)

\* after "{" or ",": key ":" value, then "," or "}"
ParseMembers(toks, i0, acc) ==
    LET i == SkipWs(toks, i0) IN
    IF i > Len(toks) \/ ~IsStrTok(toks[i]) THEN Fail
    ELSE LET j == SkipWs(toks, i + 1) IN
         IF j > Len(toks) \/ toks[j].k # "colon" THEN Fail
         ELSE LET r == ParseValue(toks, j + 1) IN
              IF ~r.ok THEN Fail
              ELSE LET m == SkipWs(toks, r.i)
                       acc2 == DictSet(acc, toks[i].v, r.v) IN
                   IF m > Len(toks) THEN Fail
                   ELSE IF toks[m].k = "rbrace"
                        THEN [ok |-> TRUE, v |-> JObj(acc2), i |-> m + 1]
                   ELSE IF toks[m].k = "comma"
                        THEN ParseMembers(toks, m + 1, acc2)
                   ELSE Fail

\* after "[" or ",": value, then "," or "]"
ParseItems(toks, i0, acc) ==
    LET r == ParseValue(toks, i0) IN
    IF ~r.ok THEN Fail
    ELSE LET m == SkipWs(toks, r.i)
             acc2 == Append(acc, r.v) IN
         IF m > Len(toks) THEN Fail
         ELSE IF toks[m].k = "rbrack"
              THEN [ok |-> TRUE, v |-> JList(acc2), i |-> m + 1]
         ELSE IF toks[m].k = "comma" THEN ParseItems(toks, m + 1, acc2)
         ELSE Fail

ParseValue(toks, i0) ==
    LET i == SkipWs(toks, i0) IN
    IF i > Len(toks) THEN Fail
    ELSE LET tok == toks[i] IN
         CASE tok.k = "null" -> [ok |-> TRUE, v |-> JNull, i |-> i + 1]
           [] tok.k = "num" -> [ok |-> TRUE, v |-> JNum(NumOf(tok.v)), i |-> i + 1]
           [] IsStrTok(tok) -> [ok |-> TRUE, v |-> JStr(tok.v), i |-> i + 1]
           [] tok.k = "lbrace" ->
                LET j == SkipWs(toks, i + 1) IN
                IF j <= Len(toks) /\ toks[j].k = "rbrace"
                THEN [ok |-> TRUE, v |-> JObj(<<>>), i |-> j + 1]
                ELSE ParseMembers(toks, i + 1, <<>>)
           [] tok.k = "lbrack" ->
                LET j == SkipWs(toks, i + 1) IN
                IF j <= Len(toks) /\ toks[j].k = "rbrack"
                THEN [ok |-> TRUE, v |-> JList(<<>>), i |-> j + 1]
                ELSE ParseItems(toks, i + 1, <<>>)
           [] OTHER -> Fail

\* json.loads(text): one value, then only whitespace up to the end
JsonLoads(toks) ==
    LET r == ParseValue(toks, 1) IN
    IF r.ok /\ SkipWs(toks, r.i) > Len(toks) THEN r ELSE Fail

(***************************************************************************)
(* json.dumps(value) with the default separators ", " and ": ".            *)
(* A value holding a non-serializable object makes json.dumps raise.       *)
(***************************************************************************)
RECURSIVE Serializable(_)
Serializable(v) ==
    CASE v.t \in {"null", "num", "str"} -> TRUE
      [] v.t = "list" -> \A i \in 1..Len(v.items) : Serializable(v.items[i])
      [] v.t = "obj" -> \A i \in 1..Len(v.pairs) : Serializable(v.pairs[i][2])
      [] OTHER -> FALSE

RECURSIVE JoinStr(_, _)
JoinStr(ss, sep) ==
    IF ss = <<>> THEN ""
    ELSE IF Len(ss) = 1 THEN ss[1]
    ELSE ss[1] \o sep \o JoinStr(Tail(ss), sep)

RECURSIVE JsonDumps(_)
JsonDumps(v) ==
    CASE v.t = "null" -> "null"
      [] v.t = "num" -> NumStr(v.n)
      [] v.t = "str" -> "\"" \o v.s \o "\""
      [] v.t = "list" ->
           "[" \o JoinStr([i \in 1..Len(v.items) |-> JsonDumps(v.items[i])], ", ") \o "]"
      [] v.t = "obj" ->
           "{" \o JoinStr([i \in 1..Len(v.pairs) |->
                    "\"" \o v.pairs[i][1] \o "\": " \o JsonDumps(v.pairs[i][2])], ", ") \o "}"


(***************************************************************************)
(* The host's tool functions.  Each is a Python function object with a     *)
(* declared __name__, parameters, docstring and body:                      *)
(*   def f(x: typing.Annotated[str, "The x."]):                            *)
(*       """Make y."""                                                     *)
(*       return {"y": 2}                                                   *)
(*   def f(x: int): return {"y": 3}        (a second f, called f2 here)    *)
(*   def n():                                                              *)
(*       """                                                               *)
(*       Return seven.                                                     *)
(*       Always.                                                           *)
(*       """                                                               *)
(*       return 7                                                          *)
(*   def h(): raise Exception("boom")      def u(): return object()        *)
(***************************************************************************)
FuncName(fid) == IF fid = "f2" THEN "f" ELSE fid
FuncParams(fid) == IF fid \in {"f", "f2"} THEN {"x"} ELSE {}
\* the outcome of a call: entered tells whether the function's body ran
Returned(v) == [kind |-> "ok", v |-> v, exc |-> "", msg |-> "", entered |-> TRUE]
Raised(exc, msg) ==
    [kind |-> "raise", v |-> JNull, exc |-> exc, msg |-> msg, entered |-> TRUE]
NotCalled(exc, msg) ==
    [kind |-> "raise", v |-> JNull, exc |-> exc, msg |-> msg, entered |-> FALSE]
\* the module the host defines its functions in
FuncModule(fid) == "hostfuncs"
FuncBody(fid) ==
    CASE fid = "f" -> Returned(JObj(<<<<"y", JNum(2)>>>>))
      [] fid = "f2" -> Returned(JObj(<<<<"y", JNum(3)>>>>))
      [] fid = "n" -> Returned(JNum(7))
      [] fid = "h" -> Raised("Exception", "boom")
      [] fid = "u" -> Returned(Opaque)

\* inspect.signature(func).parameters: name, annotated type, description
\* (Annotated only), and whether the parameter has no default
Param(name, type, annotated, desc) ==
    [name |-> name, type |-> type, annotated |-> annotated, desc |-> desc,
     required |-> TRUE]
FuncSignature(fid) ==
    CASE fid = "f" -> <<Param("x", "str", TRUE, "The x.")>>
      [] fid = "f2" -> <<Param("x", "int", FALSE, "")>>
      [] OTHER -> <<>>
\* str(inspect.signature(func))
SignatureText(fid) ==
    CASE fid = "f" -> "(x: typing.Annotated[str, 'The x.'])"
      [] fid = "f2" -> "(x: int)"
      [] OTHER -> "()"
\* inspect.getdoc(func): the lines of the docstring, none when there is no
\* docstring
FuncDoc(fid) ==
    CASE fid = "f" -> <<"Make y.">>
      [] fid = "n" -> <<"Return seven.", "Always.">>
      [] OTHER -> <<>>

\* func(**params): params must be a mapping whose keys bind the signature
BindsSignature(fid, params) ==
    params.t = "obj" /\ DictKeys(params.pairs) = FuncParams(fid)
\* type(v).__name__
PyTypeName(v) ==
    CASE v.t = "null" -> "NoneType"
      [] v.t = "num" -> "int"
      [] v.t = "str" -> "str"
      [] v.t = "list" -> "list"
      [] v.t = "obj" -> "dict"
      [] OTHER -> "object"
\* the TypeError of a call whose arguments do not bind: not a mapping, a
\* keyword the function does not take (the first one), a missing argument
TypeErrorText(fid, params) ==
    IF params.t # "obj"
    THEN FuncModule(fid) \o "." \o FuncName(fid)
         \o "() argument after ** must be a mapping, not " \o PyTypeName(params)
    ELSE IF DictKeys(params.pairs) \ FuncParams(fid) # {}
    THEN LET extra == SelectSeq(params.pairs, LAMBDA kv : kv[1] \notin FuncParams(fid)) IN
         FuncName(fid) \o "() got an unexpected keyword argument '" \o extra[1][1] \o "'"
    ELSE FuncName(fid) \o "() missing 1 required positional argument: 'x'"
\* func(**params): the body runs only when the arguments bind
CallFunc(fid, params) ==
    IF BindsSignature(fid, params) THEN FuncBody(fid)
    ELSE NotCalled("TypeError", TypeErrorText(fid, params))

(***************************************************************************)
(* ToolAgent.__init__ / CodeAgent.__init__: a list of functions becomes a  *)
(* dict keyed by each function's __name__ (a later duplicate overwrites    *)
(* the value, the key keeps its first position); a dict is kept as given.  *)
(***************************************************************************)
\* mutant: the first function of a name is the one kept
RECURSIVE FromList_KeepFirst(_, _)
FromList_KeepFirst(funcs, acc) ==
    IF funcs = <<>> THEN acc
    ELSE FromList_KeepFirst(Tail(funcs),
           IF DictHas(acc, FuncName(Head(funcs))) THEN acc
           ELSE DictSet(acc, FuncName(Head(funcs)), Head(funcs)))

RECURSIVE FromList(_, _)
FromList(funcs, acc) ==
    IF funcs = <<>> THEN acc
    ELSE FromList(Tail(funcs), DictSet(acc, FuncName(Head(funcs)), Head(funcs)))
MakeRegistry(arg) ==
    IF arg.kind = "list" THEN FromList(arg.funcs, <<>>) ELSE arg.pairs

ListArg(funcs) == [kind |-> "list", funcs |-> funcs, pairs |-> <<>>]
DictArg(pairs) == [kind |-> "dict", funcs |-> <<>>, pairs |-> pairs]
ConstructorArgs ==
    { ListArg(<<"f", "n", "h", "u">>),
      DictArg(<<<<"f", "f">>, <<"n", "n">>>>),
      ListArg(<<>>),
      ListArg(<<"f", "n", "f2">>),
      DictArg(<<<<"g", "n">>>>) }

(***************************************************************************)
(* Results of handle_response: None, a string, or an escaping exception.   *)
(***************************************************************************)
RNone == [kind |-> "none", s |-> "", exc |-> ""]
RStr(s) == [kind |-> "str", s |-> s, exc |-> ""]
RRaise(exc) == [kind |-> "raise", s |-> "", exc |-> exc]
Pending == [kind |-> "pending", s |-> "", exc |-> ""]

(***************************************************************************)
(* json_function_stub (lines 21-60) and ToolAgent.tools (line 72).         *)
(***************************************************************************)
\* lines 40-47: the entry of one parameter
ParamEntry(p) ==
    JObj(IF p.annotated
         THEN <<<<"type", JStr(p.type)>>, <<"description", JStr(p.desc)>>>>
         ELSE <<<<"type", JStr(p.type)>>>>)
\* lines 39-54: properties and required, in signature order
RECURSIVE ParamEntries(_, _)
ParamEntries(sig, acc) ==
    IF sig = <<>> THEN acc
    ELSE ParamEntries(Tail(sig), DictSet(acc, Head(sig).name, ParamEntry(Head(sig))))
RequiredNames(sig) ==
    [i \in 1..Len(SelectSeq(sig, LAMBDA p : p.required)) |->
        JStr(SelectSeq(sig, LAMBDA p : p.required)[i].name)]
json_function_stub(name, fid) ==
    JObj(<<
      <<"type", JStr("function")>>,
      <<"function", JObj(<<
          <<"name", JStr(name)>>,
          <<"description", JStr(JoinStr(FuncDoc(fid), "\n"))>>,
          <<"parameters", JObj(<<
              <<"type", JStr("object")>>,
              <<"properties", JObj(ParamEntries(FuncSignature(fid), <<>>))>>,
              <<"required", JList(RequiredNames(FuncSignature(fid)))>> >>)>> >>)>> >>)
\* line 72
MakeTools(reg) == [i \in 1..Len(reg) |-> json_function_stub(reg[i][1], reg[i][2])]

(***************************************************************************)
(* code_function_stub (lines 122-137) and CodeAgent.format_system_prompt   *)
(* (lines 181-197).  A prompt template is a sequence of lexemes: text      *)
(* lexemes and the placeholder {functions}.  A fence is written '''.       *)
(***************************************************************************)
RECURSIVE DocLines(_)
DocLines(lines) ==
    IF lines = <<>> THEN ""
    ELSE "    " \o Head(lines) \o "\n" \o DocLines(Tail(lines))
code_function_stub(fid) ==
    "def " \o FuncName(fid) \o SignatureText(fid) \o ":\n"
    \o (IF FuncDoc(fid) # <<>>
        THEN "    \"\"\"\n" \o DocLines(FuncDoc(fid)) \o "    \"\"\"\n"
        ELSE "")
    \o "    pass"

Placeholder == Tok("placeholder", "{functions}")
Piece(s) == Tok("text", s)
default_code_system_prompt ==
    << Piece("You are a Python coding expert and ReAct agent that acts by writing executable code.\nAt each step I will execute the code that you wrote and send you the execution result.\nThen continue with the next step by reasoning and writing executable code until you have a final answer.\nThe final answer must be in plain text or markdown (exclude code and exclude latex).\n\nYou can use the following available functions:\n"),
       Placeholder,
       Piece("\n\nThink step by step and provide your reasoning, outside of the function calls.\nYou can write Python code but ONLY using the available functions. Use the print function to return the execution result for each step. You MUST NOT use imports or external libraries.\n\nProvide all your python code in a SINGLE markdown code block like the following:\n'''python\nvar1 = example_function(arg1, \"string\")\nresult = example_function2(var1, arg2)\nprint(result)\n'''\n\nRemember to only execute code for one step at a time and wait for the execution result to inspect the return values. All python markdown code you provide in your responses will be executed in order.") >>
NoPrompt == <<Tok("none", "None")>>

\* line 193
ToolBlock(reg) ==
    "'''python\n"
    \o JoinStr([i \in 1..Len(reg) |-> code_function_stub(reg[i][2])], "\n\n")
    \o "\n'''"
\* lines 190-197; the argument NoPrompt stands for prompt=None
format_system_prompt(reg, arg) ==
    LET prompt == IF arg = NoPrompt THEN default_code_system_prompt ELSE arg IN
    IF \A i \in 1..Len(prompt) : prompt[i] # Placeholder
    THEN RRaise("ValueError")
    ELSE RStr(JoinStr([i \in 1..Len(prompt) |->
                         IF prompt[i] = Placeholder THEN ToolBlock(reg) ELSE prompt[i].v],
                      ""))
\* the prompt templates given to format_system_prompt
Prompts ==
    { NoPrompt,
      <<Piece("Functions:\n"), Placeholder>>,
      <<Placeholder, Piece(" and again "), Placeholder>>,
      <<Piece("You have no functions.")>> }

ErrInvalidJson == "Error: invalid JSON format."
ErrMissingName == "Error: missing function name in function call."
ErrMissingParams == "Error: missing parameters in function call."
ErrCallFailed == "Error: function call failed"
ErrNotSerializable == "Error: function call did not return JSON serializable result."
ErrUnknown(nameText) == "Error: unknown function " \o nameText \o "."

(***************************************************************************)
(* Text operations on a response.                                          *)
(***************************************************************************)
HasKind(toks, k) == \E i \in 1..Len(toks) : toks[i].k = k

\* re.findall(open(.*?)close, text, re.DOTALL): the leftmost opener that a
\* closer follows, up to the first closer after it; <<>> when none matches.
FirstMatch(toks, ko, kc) ==
    LET starts == {i \in 1..Len(toks) :
                     toks[i].k = ko /\ \E j \in (i + 1)..Len(toks) : toks[j].k = kc}
    IN IF starts = {} THEN [found |-> FALSE, body |-> <<>>]
       ELSE LET i == Min(starts)
                j == Min({m \in (i + 1)..Len(toks) : toks[m].k = kc})
            IN [found |-> TRUE, body |-> SubSeq(toks, i + 1, j - 1)]

\* str.replace("'", '"')
ReplaceQuoteTok(tok) ==
    CASE tok.k = "sq" -> Tok("dq", tok.v)
      [] tok.k = "dqa" -> Tok("bad", tok.v)
      [] OTHER -> tok
ReplaceQuotes(toks) == [i \in 1..Len(toks) |-> ReplaceQuoteTok(toks[i])]

\* str.strip()
Strip(toks) ==
    LET keep == {i \in 1..Len(toks) : toks[i].k # "ws"} IN
    IF keep = {} THEN <<>> ELSE SubSeq(toks, Min(keep), Max(keep))

StartsWithBrace(toks) == toks # <<>> /\ toks[1].k = "lbrace"

(***************************************************************************)
(* ToolAgent.handle_response, lines 75-89: which text goes to json.loads.  *)
(* [kind |-> "none"], [kind |-> "text", text |-> ...] or "raise" (the [0]  *)
(* of an empty findall result is an IndexError).                           *)
(***************************************************************************)
Extracted(how, text) == [kind |-> "text", how |-> how, text |-> text]
NoExtract(kind) == [kind |-> kind, how |-> "", text |-> <<>>]

\* mutant: the bare-object test looks for "{" anywhere in the response
ExtractJson_BraceAnywhere(resp) ==
    IF HasKind(resp, "open") /\ HasKind(resp, "close")
    THEN LET m == FirstMatch(resp, "open", "close") IN
         IF m.found THEN Extracted("tag", m.body) ELSE NoExtract("raise")
    ELSE IF HasKind(resp, "fence")
    THEN LET m == FirstMatch(resp, "fence", "fence") IN
         IF m.found THEN Extracted("fence", ReplaceQuotes(m.body))
         ELSE NoExtract("raise")
    ELSE IF HasKind(resp, "lbrace")
    THEN Extracted("bare", Strip(resp))
    ELSE NoExtract("none")

\* mutant: the fence is looked for before the tags
ExtractJson_FenceFirst(resp) ==
    IF HasKind(resp, "fence")
    THEN LET m == FirstMatch(resp, "fence", "fence") IN
         IF m.found THEN Extracted("fence", ReplaceQuotes(m.body))
         ELSE NoExtract("raise")
    ELSE IF HasKind(resp, "open") /\ HasKind(resp, "close")
    THEN LET m == FirstMatch(resp, "open", "close") IN
         IF m.found THEN Extracted("tag", m.body) ELSE NoExtract("raise")
    ELSE IF StartsWithBrace(Strip(resp))
    THEN Extracted("bare", Strip(resp))
    ELSE NoExtract("none")

ExtractJson(resp) ==
    IF HasKind(resp, "open") /\ HasKind(resp, "close")
    THEN LET m == FirstMatch(resp, "open", "close") IN
         IF m.found THEN Extracted("tag", m.body) ELSE NoExtract("raise")
    ELSE IF HasKind(resp, "fence")
    THEN LET m == FirstMatch(resp, "fence", "fence") IN
         IF m.found THEN Extracted("fence", ReplaceQuotes(m.body))
         ELSE NoExtract("raise")
    ELSE IF StartsWithBrace(Strip(resp))
    THEN Extracted("bare", Strip(resp))
    ELSE NoExtract("none")

(***************************************************************************)
(* ToolAgent.handle_response, lines 94-120: the loop over the batch.       *)
(* An outcome is the result and the log of invoked functions.              *)
(***************************************************************************)
Outcome(res, log) == [res |-> res, log |-> log]

\* str(name) inside the f-string of line 101
\* repr(v) and str(v) of a value json.loads can give
HasApostrophe(s) == s = "it's"
RECURSIVE PyRepr(_)
PyRepr(v) ==
    CASE v.t = "null" -> "None"
      [] v.t = "num" -> NumStr(v.n)
      [] v.t = "str" -> IF HasApostrophe(v.s) THEN "\"" \o v.s \o "\""
                        ELSE "'" \o v.s \o "'"
      [] v.t = "list" ->
           "[" \o JoinStr([i \in 1..Len(v.items) |-> PyRepr(v.items[i])], ", ") \o "]"
      [] v.t = "obj" ->
           "{" \o JoinStr([i \in 1..Len(v.pairs) |->
                  PyRepr(JStr(v.pairs[i][1])) \o ": " \o PyRepr(v.pairs[i][2])], ", ") \o "}"
PyStr(v) == IF v.t = "str" THEN v.s ELSE PyRepr(v)
Hashable(v) == v.t \notin {"list", "obj"}

\* self.tool_functions.get(name, None)
Lookup(reg, name) ==
    IF name.t = "str" /\ DictHas(reg, name.s)
    THEN [found |-> TRUE, fid |-> DictGet(reg, name.s)]
    ELSE [found |-> FALSE, fid |-> ""]

\* lines 96-108: the checks made on one element before its function is called
Verdict(kind, err, fid, params) ==
    [kind |-> kind, err |-> err, fid |-> fid, params |-> params]
\* mutant: the payload is looked for before the name is resolved
CheckElement_PayloadFirst(reg, c) ==
    IF c.t # "obj" THEN Verdict("raise", "AttributeError", "", JNull)
    ELSE LET name == IF DictHas(c.pairs, "name") THEN DictGet(c.pairs, "name")
                     ELSE JNull IN
    IF name = JNull THEN Verdict("error", ErrMissingName, "", JNull)
    ELSE IF ~DictHas(c.pairs, "parameters") /\ ~DictHas(c.pairs, "arguments")
    THEN Verdict("error", ErrMissingParams, "", JNull)
    ELSE IF ~Hashable(name) THEN Verdict("raise", "TypeError", "", JNull)
    ELSE LET func == Lookup(reg, name) IN
    IF ~func.found THEN Verdict("error", ErrUnknown(PyStr(name)), "", JNull)
    ELSE IF DictHas(c.pairs, "parameters")
    THEN Verdict("call", "", func.fid, DictGet(c.pairs, "parameters"))
    ELSE Verdict("call", "", func.fid, DictGet(c.pairs, "arguments"))

CheckElement(reg, c) ==
    IF c.t # "obj" THEN Verdict("raise", "AttributeError", "", JNull)
    ELSE LET name == IF DictHas(c.pairs, "name") THEN DictGet(c.pairs, "name")
                     ELSE JNull IN
    IF name = JNull THEN Verdict("error", ErrMissingName, "", JNull)
    ELSE IF ~Hashable(name) THEN Verdict("raise", "TypeError", "", JNull)
    ELSE LET func == Lookup(reg, name) IN
    IF ~func.found THEN Verdict("error", ErrUnknown(PyStr(name)), "", JNull)
    ELSE IF DictHas(c.pairs, "parameters")
    THEN Verdict("call", "", func.fid, DictGet(c.pairs, "parameters"))
    ELSE IF DictHas(c.pairs, "arguments")
    THEN Verdict("call", "", func.fid, DictGet(c.pairs, "arguments"))
    ELSE Verdict("error", ErrMissingParams, "", JNull)

\* mutant: the exception's text is put into the message
CallFailedMessage_Leak(r) == "Error: " \o r.msg

\* line 113: the message for an exception raised by the call
CallFailedMessage(r) == ErrCallFailed

\* mutant: the newest result is put in front of the buffer
Accumulate_Prepend(out, v) == JsonDumps(v) \o "\n" \o out

\* line 116: tool_response += json.dumps(result) + "\n"
Accumulate(out, v) == out \o JsonDumps(v) \o "\n"

\* mutant: the error is appended to the results gathered so far
ErrorReturn_KeepBuffer(out, err) == RStr(out \o err)

\* lines 98, 101, 108, 113, 118: an error is returned alone, the buffer
\* tool_response is dropped
ErrorReturn(out, err) == RStr(err)

\* mutant: an element that fails a check is skipped and the loop goes on
RECURSIVE RunCalls_KeepGoing(_, _, _, _, _)
RunCalls_KeepGoing(reg, calls, i, out, log) ==
    IF i > Len(calls) THEN Outcome(RStr(out), log)
    ELSE LET chk == CheckElement(reg, calls[i]) IN
    IF chk.kind = "raise" THEN Outcome(RRaise(chk.err), log)
    ELSE IF chk.kind = "error" THEN RunCalls_KeepGoing(reg, calls, i + 1, out, log)
    ELSE LET r == CallFunc(chk.fid, chk.params)
             log2 == IF r.entered
                     THEN Append(log, [at |-> i, fid |-> chk.fid, kind |-> r.kind])
                     ELSE log
         IN
    IF r.kind = "raise" THEN Outcome(ErrorReturn(out, CallFailedMessage(r)), log2)
    ELSE IF ~Serializable(r.v) THEN Outcome(ErrorReturn(out, ErrNotSerializable), log2)
    ELSE RunCalls_KeepGoing(reg, calls, i + 1, Accumulate(out, r.v), log2)

RECURSIVE RunCalls(_, _, _, _, _)
RunCalls(reg, calls, i, out, log) ==
    IF i > Len(calls) THEN Outcome(RStr(out), log)
    ELSE LET chk == CheckElement(reg, calls[i]) IN
    IF chk.kind = "raise" THEN Outcome(RRaise(chk.err), log)
    ELSE IF chk.kind = "error" THEN Outcome(ErrorReturn(out, chk.err), log)
    ELSE LET r == CallFunc(chk.fid, chk.params)
             log2 == IF r.entered
                     THEN Append(log, [at |-> i, fid |-> chk.fid, kind |-> r.kind])
                     ELSE log
         IN
    IF r.kind = "raise" THEN Outcome(ErrorReturn(out, CallFailedMessage(r)), log2)
    ELSE IF ~Serializable(r.v) THEN Outcome(ErrorReturn(out, ErrNotSerializable), log2)
    ELSE RunCalls(reg, calls, i + 1, Accumulate(out, r.v), log2)

\* lines 91-92
AsBatch(v) == IF v.t = "list" THEN v.items ELSE <<v>>

ToolHandleResponse(reg, resp) ==
    LET ex == ExtractJson(resp) IN
    IF ex.kind = "none" THEN Outcome(RNone, <<>>)
    ELSE IF ex.kind = "raise" THEN Outcome(RRaise("IndexError"), <<>>)
    ELSE LET parsed == JsonLoads(ex.text) IN
         IF ~parsed.ok THEN Outcome(RStr(ErrInvalidJson), <<>>)
         ELSE RunCalls(reg, AsBatch(parsed.v), 1, "", <<>>)

(***************************************************************************)
(* The responses handed to ToolAgent.handle_response: JSON values written  *)
(* out as text (double- or single-quoted, ", " and ": " separators) and    *)
(* placed in the response in the ways a model writes them.                 *)
(***************************************************************************)
StrTok(s, q) ==
    IF HasApostrophe(s) THEN Tok(IF q = "dq" THEN "dqa" ELSE "bad", s)
    ELSE Tok(q, s)

RECURSIVE Lex(_, _)
Lex(v, q) ==
    CASE v.t = "null" -> <<Tok("null", "null")>>
      [] v.t = "num" -> <<Tok("num", NumStr(v.n))>>
      [] v.t = "str" -> <<StrTok(v.s, q)>>
      [] v.t = "list" ->
           <<Tok("lbrack", "[")>>
           \o Flatten([i \in 1..Len(v.items) |->
                 (IF i > 1 THEN <<Tok("comma", ","), Sp>> ELSE <<>>)
                 \o Lex(v.items[i], q)])
           \o <<Tok("rbrack", "]")>>
      [] v.t = "obj" ->
           <<Tok("lbrace", "{")>>
           \o Flatten([i \in 1..Len(v.pairs) |->
                 (IF i > 1 THEN <<Tok("comma", ","), Sp>> ELSE <<>>)
                 \o <<StrTok(v.pairs[i][1], q), Tok("colon", ":"), Sp>>
                 \o Lex(v.pairs[i][2], q)])
           \o <<Tok("rbrace", "}")>>

NoArgs == JObj(<<>>)
CallOf(name, key, params) == JObj(<<<<"name", name>>, <<key, params>>>>)
Elements ==
    { CallOf(JStr("f"), "arguments", JObj(<<<<"x", JNum(1)>>>>)),
      CallOf(JStr("n"), "parameters", NoArgs),
      CallOf(JStr("g"), "parameters", NoArgs),
      JObj(<<<<"parameters", NoArgs>>>>),
      JObj(<<<<"name", JStr("n")>>>>),
      JObj(<<<<"name", JStr("h")>>>>),
      CallOf(JStr("h"), "parameters", NoArgs),
      CallOf(JStr("u"), "arguments", NoArgs),
      CallOf(JStr("f"), "parameters", NoArgs),
      CallOf(JStr("n"), "parameters", JNum(5)),
      CallOf(JNum(5), "parameters", NoArgs),
      CallOf(JNull, "arguments", NoArgs),
      CallOf(JList(<<JStr("n")>>), "parameters", NoArgs),
      JObj(<<<<"name", JStr("n")>>, <<"arguments", JObj(<<<<"x", JNum(1)>>>>)>>,
             <<"parameters", NoArgs>>>>),
      JNum(5) }

BatchesOf(len) == {JList(items) : items \in [1..len -> Elements]}
BatchValues == Elements \cup UNION {BatchesOf(len) : len \in 0..MaxBatch}

\* a few values that go through every placement and both quote styles
SampleValues ==
    { CallOf(JStr("f"), "arguments", JObj(<<<<"x", JNum(1)>>>>)),
      JList(<<CallOf(JStr("n"), "parameters", NoArgs),
              CallOf(JStr("g"), "parameters", NoArgs)>>),
      JObj(<<<<"name", JStr("n")>>, <<"parameters", NoArgs>>,
             <<"note", JStr("it's")>>>>),
      JNum(5),
      JList(<<>>) }

Other == Lex(CallOf(JStr("n"), "parameters", NoArgs), "dq")
Placements(b) ==
    { b,
      <<Nl>> \o b \o <<Nl>>,
      <<Word("Sure"), Sp>> \o b,
      <<Word("Sure"), Sp, Open>> \o b \o <<Close>>,
      <<Word("Sure"), Nl, Fence>> \o b \o <<Fence>>,
      <<Fence, Word("json"), Nl>> \o b \o <<Nl, Fence>>,
      <<Fence, Open>> \o b \o <<Close, Fence>>,
      <<Fence>> \o b,
      <<Close>> \o b \o <<Open>>,
      <<Open>> \o b,
      b \o <<Open>>,
      <<Open>> \o b \o <<Close, Sp, Open>> \o Other \o <<Close>>,
      b \o <<Nl, Fence>> \o Other \o <<Fence>>,
      <<Fence>> \o Other \o <<Fence, Open>> \o b \o <<Close>>,
      <<Open>> \o SubSeq(b, 1, Len(b) - 1) \o <<Close>>,
      <<Word("Sure")>> }

ToolResponses ==
    {<<Open>> \o Lex(v, "dq") \o <<Close>> : v \in BatchValues}
    \cup UNION {Placements(Lex(v, q)) : v \in SampleValues, q \in {"dq", "sq"}}

(***************************************************************************)
(* CodeAgent.  The source of a code block is a sequence of statement       *)
(* lines, each one lexeme [k |-> "stmt", v |-> source line, ...]:          *)
(*   x = n()    y = x    print(y)    print()    h()    _x = 1              *)
(* compile_restricted_exec rejects names starting with "_", and where the  *)
(* source uses print it puts  _print = _print_(_getattr_)  in front of the *)
(* module body and turns print(...) into _print._call_print(...).          *)
(* In result strings a fence is written ''' (three apostrophes).           *)
(***************************************************************************)
Stmt(src, o, var, arg) == [k |-> "stmt", v |-> src, op |-> o, var |-> var, arg |-> arg]
Statements ==
    { Stmt("x = n()", "call", "x", "n"),
      Stmt("y = x", "copy", "y", "x"),
      Stmt("print(y)", "print", "", "y"),
      Stmt("print()", "printnl", "", ""),
      Stmt("h()", "call", "", "h"),
      Stmt("_x = 1", "badname", "_x", "") }

PyTag == Word("python")
ErrFormat == "Error: code block must be formatted as '''python ... '''"
ErrMultiple == "Error: multiple code blocks found"
ErrNoPrint == "Error: No print statement executed in code block."
ErrEmpty == "Error: result string is empty."
ErrName(name) == "name '" \o name \o "' is not defined"

FuncObj(fid) == [t |-> "func", fid |-> fid]
Collector(txt) == [t |-> "collector", txt |-> txt]
Builtin(name) == [t |-> "builtin", name |-> name]

\* CodeAgent.__init__, lines 168-171
MakeGlobals(reg) ==
    LET base == <<<<"__builtins__", Builtin("safe_builtins")>>>>
        RECURSIVE Upd(_, _)
        Upd(g, i) == IF i > Len(reg) THEN g
                     ELSE Upd(DictSet(g, reg[i][1], FuncObj(reg[i][2])), i + 1)
    IN DictSet(DictSet(Upd(base, 1), "_print_", Builtin("PrintCollector")),
               "_getitem_", Builtin("operator.getitem"))

\* the test  fence + "python" in response  of line 211
HasPyFence(toks) ==
    \E i \in 1..(Len(toks) - 1) : toks[i].k = "fence" /\ toks[i + 1] = PyTag

\* re.findall(fence + "python(.*?)" + fence, response, re.DOTALL), from p on
RECURSIVE PyBlocks(_, _)
PyBlocks(toks, p) ==
    LET starts == {i \in p..(Len(toks) - 1) :
                     /\ toks[i].k = "fence"
                     /\ toks[i + 1] = PyTag
                     /\ \E j \in (i + 2)..Len(toks) : toks[j].k = "fence"}
    IN IF starts = {} THEN <<>>
       ELSE LET i == Min(starts)
                j == Min({m \in (i + 2)..Len(toks) : toks[m].k = "fence"})
            IN <<SubSeq(toks, i + 2, j - 1)>> \o PyBlocks(toks, j + 1)

\* the statement lines of a block and the line each one is on
LineOf(block, i) == 1 + Cardinality({j \in 1..(i - 1) : block[j] = Nl})
StmtsOf(block) == SelectSeq(block, LAMBDA tok : tok.k = "stmt")

\* compile_restricted_exec(code_block).errors
RECURSIVE CompileErrorsFrom(_, _)
CompileErrorsFrom(block, i) ==
    IF i > Len(block) THEN <<>>
    ELSE (IF block[i].k = "stmt" /\ block[i].op = "badname"
          THEN <<"Line " \o NumStr(LineOf(block, i)) \o ": \"" \o block[i].var
                 \o "\" is an invalid variable name because it starts with \"_\"">>
          ELSE <<>>)
         \o CompileErrorsFrom(block, i + 1)
CompileErrors(block) == CompileErrorsFrom(block, 1)

UsesPrint(stmts) ==
    \E i \in 1..Len(stmts) : stmts[i].op \in {"print", "printnl"}

\* name lookup of exec(code, globals, locals): locals, then globals
Resolve(globals, locals, name) ==
    IF DictHas(locals, name) THEN [found |-> TRUE, v |-> DictGet(locals, name)]
    ELSE IF DictHas(globals, name) THEN [found |-> TRUE, v |-> DictGet(globals, name)]
    ELSE [found |-> FALSE, v |-> JNull]

\* PrintCollector._call_print(obj): str(obj) and a newline go to the buffer
Printed(locals, pieces) ==
    DictSet(locals, "_print", Collector(DictGet(locals, "_print").txt \o pieces))

ExecState(locals, raised, msg, printed, log) ==
    [locals |-> locals, raised |-> raised, msg |-> msg, printed |-> printed, log |-> log]

\* exec(compiled.code, sandbox_globals, sandbox_locals), statement by statement
RECURSIVE ExecFrom(_, _, _, _)
ExecFrom(globals, stmts, i, st) ==
    IF i > Len(stmts) THEN st
    ELSE LET s == stmts[i]
             locals == st.locals IN
    CASE s.op = "call" ->
           LET f == Resolve(globals, locals, s.arg) IN
           IF ~f.found
           THEN ExecState(locals, TRUE, ErrName(s.arg), st.printed, st.log)
           ELSE LET r == CallFunc(f.v.fid, NoArgs)
                    log2 == IF r.entered
                            THEN Append(st.log, [at |-> i, fid |-> f.v.fid, kind |-> r.kind])
                            ELSE st.log
                IN IF r.kind = "raise"
                   THEN ExecState(locals, TRUE, r.msg, st.printed, log2)
                   ELSE ExecFrom(globals, stmts, i + 1,
                          ExecState(IF s.var = "" THEN locals
                                    ELSE DictSet(locals, s.var, r.v),
                                    FALSE, "", st.printed, log2))
      [] s.op = "copy" ->
           LET a == Resolve(globals, locals, s.arg) IN
           IF ~a.found
           THEN ExecState(locals, TRUE, ErrName(s.arg), st.printed, st.log)
           ELSE ExecFrom(globals, stmts, i + 1,
                  ExecState(DictSet(locals, s.var, a.v), FALSE, "", st.printed, st.log))
      [] s.op = "print" ->
           LET a == Resolve(globals, locals, s.arg) IN
           IF ~a.found
           THEN ExecState(locals, TRUE, ErrName(s.arg), st.printed, st.log)
           ELSE ExecFrom(globals, stmts, i + 1,
                  ExecState(Printed(locals, <<PyStr(a.v), "\n">>), FALSE, "", TRUE, st.log))
      [] s.op = "printnl" ->
           ExecFrom(globals, stmts, i + 1,
             ExecState(Printed(locals, <<"\n">>), FALSE, "", TRUE, st.log))

Exec(globals, locals, stmts) ==
    ExecFrom(globals, stmts, 1,
      ExecState(IF UsesPrint(stmts) THEN DictSet(locals, "_print", Collector(<<>>))
                ELSE locals,
                FALSE, "", FALSE, <<>>))

\* self.sandbox_locals["_print"]().strip(): the buffer joined, then trimmed
IsBlankPiece(piece) == piece \in {"\n", " ", ""}
StripPieces(txt) ==
    LET keep == {i \in 1..Len(txt) : ~IsBlankPiece(txt[i])} IN
    IF keep = {} THEN "" ELSE JoinStr(SubSeq(txt, Min(keep), Max(keep)), "")

(***************************************************************************)
(* CodeAgent.handle_response, lines 208-247.  The outcome holds the        *)
(* result, the session bindings afterwards, and what was compiled and run. *)
(***************************************************************************)
CodeOutcome(res, locals, nblocks, compiled, executed, completed, printed, log) ==
    [res |-> res, locals |-> locals, log |-> log,
     ran |-> [blocks |-> nblocks, compiled |-> compiled, executed |-> executed,
              completed |-> completed, printed |-> printed]]

\* mutant: a call that runs nothing starts the session afresh
Untouched_Reset(res, locals, nblocks) ==
    CodeOutcome(res, <<>>, nblocks, FALSE, FALSE, FALSE, FALSE, <<>>)

\* lines 212, 218, 222: a return before anything is compiled
Untouched(res, locals, nblocks) ==
    CodeOutcome(res, locals, nblocks, FALSE, FALSE, FALSE, FALSE, <<>>)

\* mutant: with several blocks the first one is taken
BlockChoice_FirstOfMany(code_blocks) ==
    IF Len(code_blocks) = 0 THEN "none" ELSE "one"

\* lines 217-225: no block, more than one block, or the one block to run
BlockChoice(code_blocks) ==
    IF Len(code_blocks) = 0 THEN "none"
    ELSE IF Len(code_blocks) > 1 THEN "multiple"
    ELSE "one"

\* mutant: the capture object stays in the session bindings
DiscardCollector_Keep(locals) == locals

\* line 240: del self.sandbox_locals["_print"]
DiscardCollector(locals) == DictDel(locals, "_print")

CodeHandleResponse(globals, locals, resp) ==
    IF HasKind(resp, "fence") /\ ~HasPyFence(resp)
    THEN Untouched(RStr(ErrFormat), locals, 0)
    ELSE LET code_blocks == IF HasKind(resp, "fence") THEN PyBlocks(resp, 1) ELSE <<>> IN
    IF BlockChoice(code_blocks) = "none" THEN Untouched(RNone, locals, 0)
    ELSE IF BlockChoice(code_blocks) = "multiple"
    THEN Untouched(RStr(ErrMultiple), locals, Len(code_blocks))
    ELSE LET code_block == code_blocks[1]
             errors == CompileErrors(code_block) IN
    IF errors # <<>>
    THEN CodeOutcome(RStr("Compilation errors:\n" \o JoinStr(errors, "\n")),
                     locals, 1, TRUE, FALSE, FALSE, FALSE, <<>>)
    ELSE LET e == Exec(globals, locals, StmtsOf(code_block)) IN
    IF e.raised
    THEN CodeOutcome(RStr("Error: " \o e.msg), e.locals, 1, TRUE, TRUE, FALSE, e.printed, e.log)
    ELSE IF DictHas(e.locals, "_print")
    THEN LET printed == StripPieces(DictGet(e.locals, "_print").txt) IN
         CodeOutcome(RStr(IF Len(printed) > 0 THEN printed ELSE ErrEmpty),
                     DiscardCollector(e.locals), 1, TRUE, TRUE, TRUE, e.printed, e.log)
    ELSE CodeOutcome(RStr(ErrNoPrint), e.locals, 1, TRUE, TRUE, TRUE, e.printed, e.log)

(***************************************************************************)
(* The responses handed to CodeAgent.handle_response.                      *)
(***************************************************************************)
RECURSIVE Lines(_)
Lines(stmts) == IF stmts = <<>> THEN <<>> ELSE <<Head(stmts), Nl>> \o Lines(Tail(stmts))
Source(stmts) == <<Nl>> \o Lines(stmts)

Programs == UNION {[1..len -> Statements] : len \in 0..MaxStmts}
SamplePrograms ==
    { <<Stmt("x = n()", "call", "x", "n")>>,
      <<Stmt("print()", "printnl", "", "")>> }

CodePlacements(b) ==
    { <<Fence, PyTag>> \o b \o <<Fence, Nl, Fence, PyTag>> \o b \o <<Fence>>,
      <<Fence>> \o b \o <<Fence>>,
      <<Fence, Nl, PyTag>> \o b \o <<Fence>>,
      <<Fence>>,
      <<Fence, PyTag>> \o b,
      <<Fence>> \o b \o <<Fence, PyTag>> \o b,
      <<Fence>> \o b \o <<Fence, PyTag>> \o b \o <<Fence>>,
      <<Fence, PyTag>> \o b \o <<Fence, Nl, Fence, Word("json"), Nl, Fence>>,
      <<Fence, PyTag>> \o b \o <<Fence, Nl, Fence, PyTag>> \o b,
      <<Open>> \o Other \o <<Close>>,
      Other,
      <<Word("Sure")>> }

CodeResponses ==
    {<<Word("Sure"), Nl, Fence, PyTag>> \o Source(p) \o <<Fence>> : p \in Programs}
    \cup UNION {CodePlacements(Source(p)) : p \in SamplePrograms}

(***************************************************************************)
(* State machine.  One agent is constructed; the owning conversation loop  *)
(* calls handle_response on a model response, consumes the result, and     *)
(* calls the next operation: any sequence of handle_response (and, for a   *)
(* CodeAgent, reset) calls.                                                *)
(***************************************************************************)
NoRun == [blocks |-> 0, compiled |-> FALSE, executed |-> FALSE,
          completed |-> FALSE, printed |-> FALSE]

\* the conversation loop has not started
NoLoop == [pc |-> "off"]

\* ToolAgent.__init__ and CodeAgent.__init__
Init ==
    /\ agent \in {"tool", "code"}
    /\ given \in ConstructorArgs
    /\ tool_functions = MakeRegistry(given)
    /\ tools = IF agent = "tool" THEN MakeTools(tool_functions) ELSE <<>>
    /\ sandbox_globals = IF agent = "code" THEN MakeGlobals(tool_functions) ELSE <<>>
    /\ loop = NoLoop
    /\ sandbox_locals = <<>>
    /\ cleared = {}
    /\ op = "init"
    /\ response = <<>>
    /\ result = Pending
    /\ invoked = <<>>
    /\ ran = NoRun

ToolHandle(resp) ==
    /\ agent = "tool"
    /\ op \notin {"handle", "prompt"}
    /\ LET o == ToolHandleResponse(tool_functions, resp) IN
       /\ result' = o.res
       /\ invoked' = o.log
    /\ op' = "handle"
    /\ response' = resp
    /\ UNCHANGED <<agent, tool_functions, sandbox_globals, sandbox_locals, cleared, ran, given, tools, loop>>

CodeHandle(resp) ==
    /\ agent = "code"
    /\ op \notin {"handle", "prompt"}
    /\ LET o == CodeHandleResponse(sandbox_globals, sandbox_locals, resp) IN
       /\ result' = o.res
       /\ sandbox_locals' = o.locals
       /\ invoked' = o.log
       /\ ran' = o.ran
    /\ op' = "handle"
    /\ response' = resp
    /\ UNCHANGED <<agent, tool_functions, sandbox_globals, cleared, given, tools, loop>>

\* the caller takes the result of the call (weather-json.py, lines 116 and
\* 160-167)
Consume ==
    /\ op \in {"handle", "prompt"}
    /\ op' = "consume"
    /\ response' = <<>>
    /\ result' = Pending
    /\ invoked' = <<>>
    /\ ran' = NoRun
    /\ UNCHANGED <<agent, tool_functions, sandbox_globals, sandbox_locals, cleared, given, tools, loop>>

\* CodeAgent.format_system_prompt(prompt), lines 181-197
CodeFormatPrompt(arg) ==
    /\ agent = "code"
    /\ op \notin {"handle", "prompt"}
    /\ op' = "prompt"
    /\ response' = arg
    /\ result' = format_system_prompt(tool_functions, arg)
    /\ invoked' = <<>>
    /\ ran' = NoRun
    /\ UNCHANGED <<agent, tool_functions, sandbox_globals, sandbox_locals, cleared,
                   given, tools, loop>>

\* mutant: reset leaves the bindings in place
CodeReset_KeepBindings ==
    /\ agent = "code"
    /\ op \notin {"handle", "prompt"}
    /\ sandbox_locals' = sandbox_locals
    /\ cleared' = cleared \cup DictKeys(sandbox_locals)
    /\ op' = "reset"
    /\ UNCHANGED <<agent, tool_functions, sandbox_globals, response, result, invoked, ran, given, tools, loop>>

\* CodeAgent.reset, line 179; cleared remembers the names it unbound
CodeReset ==
    /\ agent = "code"
    /\ op \notin {"handle", "prompt"}
    /\ sandbox_locals' = <<>>
    /\ cleared' = cleared \cup DictKeys(sandbox_locals)
    /\ op' = "reset"
    /\ UNCHANGED <<agent, tool_functions, sandbox_globals, response, result, invoked, ran, given, tools, loop>>

Next ==
    \/ \E resp \in ToolResponses : ToolHandle(resp)
    \/ \E resp \in CodeResponses : CodeHandle(resp)
    \/ Consume
    \/ CodeReset
    \/ \E arg \in Prompts : CodeFormatPrompt(arg)

Spec == Init /\ [][Next]_vars

(***************************************************************************)
(* The conversation loop of weather-json.py, lines 107-167, owning one     *)
(* agent.  The model's generation and the user's input are the loop's      *)
(* inputs.  loop.pc is the line the program is at:                         *)
(*   start     line 116, about to call agent.format_system_prompt()        *)
(*   input     line 131, request is None, about to read the user's input   *)
(*   generate  line 152, about to generate a response to the request       *)
(*   handle    line 160, about to call agent.handle_response(response)     *)
(*   exited    after /exit;  crashed  an exception ended the program       *)
(* loop.generated and loop.handled count the generations and the           *)
(* handle_response calls made so far.                                      *)
(***************************************************************************)
MaxTurns == 3

\* the methods an instance of each class has (Agent is the base of both)
AgentMethods == {"__init__", "handle_response"}
Methods(cls) ==
    IF cls = "code"
    THEN AgentMethods \cup {"__init__", "reset", "format_system_prompt", "handle_response"}
    ELSE AgentMethods \cup {"__init__", "handle_response"}
HasMethod(cls, name) == name \in Methods(cls)

None == <<>>
Msg(role, content) == <<[role |-> role, content |-> content]>>
Cmd(text) == <<Tok("cmd", text)>>
\* what input("> ") returns: a command (a text starting with /), the empty
\* line, or a question
UserInputs == {Cmd("/exit"), Cmd("/clear"), Cmd("/help"), <<>>, <<Word("Weather")>>}
IsCommandOrEmpty(prompt) == prompt = <<>> \/ prompt[1].k = "cmd"
Today == "\n\nToday is DATE."

\* what model.generate produces
LoopResponses(cls) ==
    IF cls = "code"
    THEN { <<Word("Sure")>>,
           <<Fence>> \o Source(<<Stmt("x = n()", "call", "x", "n")>>) \o <<Fence>>,
           <<Fence, PyTag>> \o Source(<<Stmt("x = n()", "call", "x", "n")>>) \o <<Fence>>,
           <<Fence, PyTag>> \o Source(<<Stmt("y = x", "copy", "y", "x"),
                                        Stmt("print(y)", "print", "", "y")>>) \o <<Fence>> }
    ELSE { <<Word("Sure")>>,
           <<Open>> \o Lex(CallOf(JStr("n"), "parameters", NoArgs), "dq") \o <<Close>>,
           <<Fence, Word("json")>> }

LoopState(pc, role, sys, conv, req, prompt, resp, gen, hand) ==
    [pc |-> pc, tool_role |-> role, system_prompt |-> sys, conversation |-> conv,
     request |-> req, prompt |-> prompt, response |-> resp,
     generated |-> gen, handled |-> hand]
At(pc) == loop.pc = pc

\* lines 108-128: the agent is constructed, tool_role chosen, request = None
LoopInit ==
    /\ agent \in {"tool", "code"}
    /\ given \in ConstructorArgs
    /\ tool_functions = MakeRegistry(given)
    /\ tools = IF agent = "tool" THEN MakeTools(tool_functions) ELSE <<>>
    /\ sandbox_globals = IF agent = "code" THEN MakeGlobals(tool_functions) ELSE <<>>
    /\ sandbox_locals = <<>>
    /\ cleared = {}
    /\ op = "init"
    /\ response = <<>>
    /\ result = Pending
    /\ invoked = <<>>
    /\ ran = NoRun
    /\ \E role \in {"user", "tool"} :
         loop = LoopState("start", role, "", <<>>, None, <<>>, <<>>, 0, 0)

\* line 116: system_prompt = agent.format_system_prompt() + today's date
LoopStart ==
    /\ At("start")
    /\ IF HasMethod(agent, "format_system_prompt")
       THEN /\ result' = format_system_prompt(tool_functions, NoPrompt)
            /\ op' = "prompt"
            /\ response' = NoPrompt
            /\ loop' = [loop EXCEPT !.pc = "input",
                                    !.system_prompt = result'.s \o Today]
       ELSE /\ result' = RRaise("AttributeError")
            /\ op' = "prompt"
            /\ response' = NoPrompt
            /\ loop' = [loop EXCEPT !.pc = "crashed"]
    /\ invoked' = <<>>
    /\ ran' = NoRun
    /\ UNCHANGED <<agent, tool_functions, sandbox_globals, sandbox_locals, cleared,
                   given, tools>>

\* lines 130-147: the user's input is read; commands and the empty line
\* are dealt with here, anything else becomes the request
LoopInput(prompt) ==
    /\ At("input")
    /\ IF IsCommandOrEmpty(prompt)
       THEN IF prompt = Cmd("/exit")
            THEN /\ loop' = [loop EXCEPT !.pc = "exited", !.prompt = prompt]
                 /\ UNCHANGED <<sandbox_locals, cleared, op, result>>
            ELSE IF prompt = Cmd("/clear")
            THEN IF HasMethod(agent, "reset")
                 THEN /\ loop' = [loop EXCEPT !.conversation = <<>>, !.prompt = prompt]
                      /\ sandbox_locals' = <<>>
                      /\ cleared' = cleared \cup DictKeys(sandbox_locals)
                      /\ op' = "reset"
                      /\ UNCHANGED result
                 ELSE /\ loop' = [loop EXCEPT !.conversation = <<>>, !.prompt = prompt,
                                              !.pc = "crashed"]
                      /\ result' = RRaise("AttributeError")
                      /\ op' = "reset"
                      /\ UNCHANGED <<sandbox_locals, cleared>>
            ELSE /\ loop' = [loop EXCEPT !.prompt = prompt]
                 /\ UNCHANGED <<sandbox_locals, cleared, op, result>>
       ELSE /\ loop' = [loop EXCEPT !.pc = "generate", !.prompt = prompt,
                                    !.request = Msg("user", prompt),
                                    !.conversation = @ \o Msg("user", prompt)]
            /\ UNCHANGED <<sandbox_locals, cleared, op, result>>
    /\ UNCHANGED <<agent, tool_functions, sandbox_globals, response, invoked, ran,
                   given, tools>>

\* lines 150-157: the model generates a response to the request
LoopGenerate(resp) ==
    /\ At("generate")
    /\ loop.generated < MaxTurns
    /\ loop' = [loop EXCEPT !.pc = "handle", !.response = resp,
                            !.conversation = @ \o Msg("assistant", resp),
                            !.generated = @ + 1]
    /\ UNCHANGED <<agent, tool_functions, sandbox_globals, sandbox_locals, cleared, op,
                   response, result, invoked, ran, given, tools>>

Feedback(s) == <<Tok("result", s)>>
\* mutant: the loop asks the user after every response
AfterHandle_AlwaysAsk(l, res) ==
    IF res.kind = "raise" THEN [l EXCEPT !.pc = "crashed"]
    ELSE [l EXCEPT !.pc = "input", !.request = None]

\* lines 161-167: a result goes into the conversation under tool_role and is
\* the next request; None makes the loop ask the user
AfterHandle(l, res) ==
    IF res.kind = "raise" THEN [l EXCEPT !.pc = "crashed"]
    ELSE IF res.kind = "str"
    THEN [l EXCEPT !.pc = "generate",
                   !.request = Msg(l.tool_role, Feedback(res.s)),
                   !.conversation = @ \o Msg(l.tool_role, Feedback(res.s))]
    ELSE [l EXCEPT !.pc = "input", !.request = None]

\* line 160: result = agent.handle_response(response)
LoopHandle ==
    /\ At("handle")
    /\ IF agent = "code"
       THEN LET o == CodeHandleResponse(sandbox_globals, sandbox_locals, loop.response) IN
            /\ result' = o.res
            /\ sandbox_locals' = o.locals
            /\ invoked' = o.log
            /\ ran' = o.ran
       ELSE LET o == ToolHandleResponse(tool_functions, loop.response) IN
            /\ result' = o.res
            /\ invoked' = o.log
            /\ UNCHANGED <<sandbox_locals, ran>>
    /\ op' = "handle"
    /\ response' = loop.response
    /\ loop' = [AfterHandle(loop, result') EXCEPT !.handled = @ + 1]
    /\ UNCHANGED <<agent, tool_functions, sandbox_globals, cleared, given, tools>>

LoopNext ==
    \/ LoopStart
    \/ \E prompt \in UserInputs : LoopInput(prompt)
    \/ \E resp \in LoopResponses(agent) : LoopGenerate(resp)
    \/ LoopHandle

LoopSpec == LoopInit /\ [][LoopNext]_vars

(***************************************************************************)
(* Properties.                                                             *)
(***************************************************************************)
ToolReturned == agent = "tool" /\ op = "handle"
CodeReturned == agent = "code" /\ op = "handle"
NoFenceNoTag(resp) ==
    ~HasKind(resp, "fence") /\ ~HasKind(resp, "open") /\ ~HasKind(resp, "close")
BeginsWithBrace(resp) ==
    \E i \in 1..Len(resp) :
        /\ resp[i].k = "lbrace"
        /\ \A j \in 1..(i - 1) : resp[j].k = "ws"

\* C2 as stated: a response without a fence and without <tool_call> tags
\* yields None from both agents, whatever else it contains.
C2_NoFenceNoTagIsNone ==
    (op = "handle" /\ NoFenceNoTag(response)) => result = RNone

\* C2, amended: a response without a fence and without <tool_call> tags
\* yields None from CodeAgent, and from ToolAgent unless its trimmed text
\* begins with "{".
C2_PlainTextIsNone ==
    (/\ op = "handle"
     /\ NoFenceNoTag(response)
     /\ ~(agent = "tool" /\ BeginsWithBrace(response)))
    => result = RNone

\* a ToolAgent was handed prose followed by a JSON object and returned None
C2_Witness ==
    /\ ToolReturned
    /\ NoFenceNoTag(response)
    /\ HasKind(response, "lbrace")
    /\ result = RNone


(***************************************************************************)
(* What a response asks for, read off the parsed batch element by element. *)
(***************************************************************************)
Parsed(resp) ==
    LET ex == ExtractJson(resp) IN
    IF ex.kind # "text" THEN Fail ELSE JsonLoads(ex.text)
BatchOf(resp) ==
    LET v == Parsed(resp).v IN IF v.t = "list" THEN v.items ELSE <<v>>

ElName(c) == IF c.t = "obj" /\ DictHas(c.pairs, "name") THEN DictGet(c.pairs, "name") ELSE JNull
ElCrashes(c) == c.t # "obj" \/ ElName(c).t \in {"list", "obj"}
ElRegistered(reg, c) ==
    ElName(c).t = "str" /\ \E i \in 1..Len(reg) : reg[i][1] = ElName(c).s
ElFunc(reg, c) == reg[CHOOSE i \in 1..Len(reg) : reg[i][1] = ElName(c).s][2]
ElHasPayload(c) == DictHas(c.pairs, "parameters") \/ DictHas(c.pairs, "arguments")
ElPayload(c) ==
    IF DictHas(c.pairs, "parameters") THEN DictGet(c.pairs, "parameters")
    ELSE DictGet(c.pairs, "arguments")
ElCall(reg, c) == CallFunc(ElFunc(reg, c), ElPayload(c))
ElFailure(reg, c) ==
    IF ElCrashes(c) THEN "crash"
    ELSE IF ElName(c) = JNull THEN "missing name"
    ELSE IF ~ElRegistered(reg, c) THEN "unknown function"
    ELSE IF ~ElHasPayload(c) THEN "missing parameters"
    ELSE IF ElCall(reg, c).kind = "raise" THEN "raised"
    ELSE IF ~Serializable(ElCall(reg, c).v) THEN "not serializable"
    ELSE "ok"
ElError(reg, c) ==
    CASE ElFailure(reg, c) = "missing name" ->
           "Error: missing function name in function call."
      [] ElFailure(reg, c) = "unknown function" ->
           "Error: unknown function " \o PyStr(ElName(c)) \o "."
      [] ElFailure(reg, c) = "missing parameters" ->
           "Error: missing parameters in function call."
      [] ElFailure(reg, c) = "raised" -> "Error: function call failed"
      [] ElFailure(reg, c) = "not serializable" ->
           "Error: function call did not return JSON serializable result."
\* the position of the first element that does not succeed, 0 when all do
FirstFailing(reg, calls) ==
    LET failing == {k \in 1..Len(calls) : ElFailure(reg, calls[k]) # "ok"} IN
    IF failing = {} THEN 0 ELSE Min(failing)
RECURSIVE SuccessOutput(_, _)
SuccessOutput(reg, calls) ==
    IF calls = <<>> THEN ""
    ELSE JsonDumps(ElCall(reg, Head(calls)).v) \o "\n" \o SuccessOutput(reg, Tail(calls))

\* the batch was parsed and its first failing element is number k > 0,
\* failing in one of the five reported ways
FailsAt(k) ==
    /\ ToolReturned
    /\ Parsed(response).ok
    /\ k = FirstFailing(tool_functions, BatchOf(response))
    /\ k > 0
    /\ ElFailure(tool_functions, BatchOf(response)[k]) # "crash"

\* the error strings a call on this response may return
ErrorTexts(resp) ==
    { "Error: invalid JSON format.",
      "Error: missing function name in function call.",
      "Error: missing parameters in function call.",
      "Error: function call failed",
      "Error: function call did not return JSON serializable result." }
    \cup (IF Parsed(resp).ok
          THEN {"Error: unknown function " \o PyStr(ElName(BatchOf(resp)[i])) \o "." :
                  i \in {j \in 1..Len(BatchOf(resp)) : ElName(BatchOf(resp)[j]) # JNull}}
          ELSE {})
\* the response holds a call that cannot be carried out
IsFailure(reg, resp) ==
    \/ ExtractJson(resp).kind = "raise"
    \/ ExtractJson(resp).kind = "text" /\ ~Parsed(resp).ok
    \/ Parsed(resp).ok /\ FirstFailing(reg, BatchOf(resp)) # 0

\* C1: ToolAgent.handle_response fails closed: every call returns None or a
\* string and no exception escapes, whatever the response and the registry;
\* every failure comes back as a string that begins with "Error: ".
C1_FailsClosed ==
    ToolReturned =>
        /\ result.kind \in {"none", "str"}
        /\ IsFailure(tool_functions, response) =>
             result.kind = "str" /\ result.s \in ErrorTexts(response)

\* C3: when an element of the batch fails (missing name, unknown function,
\* missing parameters, exception in the call, result not serializable) the
\* call returns exactly that element's error string; the results of the
\* elements before it are not part of what is returned.
C3_AllOrNothing ==
    \A k \in 1..Len(response) :
        FailsAt(k) => result = RStr(ElError(tool_functions, BatchOf(response)[k]))

\* the second element of a batch failed after the first one's function ran
C3_Witness ==
    /\ FailsAt(2)
    /\ Len(invoked) >= 1 /\ invoked[1].kind = "ok"
    /\ result = RStr("Error: unknown function g.")

\* C4: when every element succeeds the feedback is each call's serialized
\* result followed by a newline, in batch order; a single object is a
\* one-element batch, and {"name":"f","arguments":{"x":1}} gives '{"y": 2}\n'.
C4_SuccessOutput ==
    /\ (/\ ToolReturned
        /\ Parsed(response).ok
        /\ FirstFailing(tool_functions, BatchOf(response)) = 0)
       => result = RStr(SuccessOutput(tool_functions, BatchOf(response)))
    /\ (/\ ToolReturned
        /\ response = Lex(CallOf(JStr("f"), "arguments", JObj(<<<<"x", JNum(1)>>>>)), "dq")
        /\ DictHas(tool_functions, "f")
        /\ FuncBody(DictGet(tool_functions, "f")) = Returned(JObj(<<<<"y", JNum(2)>>>>)))
       => result = RStr("{\"y\": 2}\n")

\* a batch of two calls with different results succeeded
C4_Witness ==
    /\ ToolReturned
    /\ Parsed(response).ok
    /\ Len(BatchOf(response)) = 2
    /\ result = RStr("7\n{\"y\": 2}\n")

\* C5: an element is checked in a fixed order, stopping at the first failed
\* check: name present, name registered, payload present under parameters or
\* arguments; only an element passing all three has its function invoked,
\* with that payload.
C5_ValidationOrder ==
    ToolReturned /\ Parsed(response).ok =>
        LET calls == BatchOf(response)
            reg == tool_functions
            k == FirstFailing(reg, calls)
            c == calls[k]
        IN /\ (k > 0 /\ ~ElCrashes(c)) =>
                /\ ElName(c) = JNull =>
                     result = RStr("Error: missing function name in function call.")
                /\ (ElName(c) # JNull /\ ~ElRegistered(reg, c)) =>
                     result = RStr("Error: unknown function " \o PyStr(ElName(c)) \o ".")
                /\ (ElRegistered(reg, c) /\ ~ElHasPayload(c)) =>
                     result = RStr("Error: missing parameters in function call.")
           /\ \A i \in 1..Len(invoked) :
                LET e == calls[invoked[i].at] IN
                /\ ~ElCrashes(e) /\ ElRegistered(reg, e) /\ ElHasPayload(e)
                /\ invoked[i].fid = ElFunc(reg, e)
           /\ \A j \in 1..Len(calls) :
                (/\ k = 0 \/ j <= k
                 /\ ~ElCrashes(calls[j])
                 /\ ElRegistered(reg, calls[j]) /\ ElHasPayload(calls[j])
                 /\ ElCall(reg, calls[j]).entered)
                => \E i \in 1..Len(invoked) : invoked[i].at = j

\* an element naming an unregistered function and carrying no payload was
\* reported as an unknown function, and nothing was invoked
C5_Witness ==
    /\ FailsAt(1)
    /\ ~ElRegistered(tool_functions, BatchOf(response)[1])
    /\ ElName(BatchOf(response)[1]) # JNull
    /\ ~ElHasPayload(BatchOf(response)[1])
    /\ invoked = <<>>
    /\ result = RStr("Error: unknown function n.")

\* C6: an exception raised by the invoked function is reported as the fixed
\* string "Error: function call failed", without the exception's text; a
\* result json.dumps cannot serialize is reported as "Error: function call
\* did not return JSON serializable result.".
C6_CallFailures ==
    \A k \in 1..Len(response) :
        FailsAt(k) =>
            LET c == BatchOf(response)[k] IN
            /\ ElFailure(tool_functions, c) = "raised" =>
                 result = RStr("Error: function call failed")
            /\ ElFailure(tool_functions, c) = "not serializable" =>
                 result = RStr("Error: function call did not return JSON serializable result.")

\* the function h was invoked, raised Exception("boom"), and the fixed
\* string came back
C6_Witness ==
    /\ ToolReturned
    /\ invoked # <<>>
    /\ invoked[Len(invoked)].fid = "h"
    /\ invoked[Len(invoked)].kind = "raise"
    /\ FuncBody("h").msg = "boom"
    /\ result = RStr("Error: function call failed")

\* what handle_response makes of an extracted text
Process(reg, text) ==
    IF ~JsonLoads(text).ok THEN RStr("Error: invalid JSON format.")
    ELSE RunCalls(reg, AsBatch(JsonLoads(text).v), 1, "", <<>>).res

\* C7: the text handed to the JSON parser is chosen by priority: the content
\* of the first <tool_call> pair when both tags are present, even with a
\* fence or a leading brace; else the content of the first fenced block with
\* ' turned into "; else the trimmed response when it starts with "{"; else
\* the call returns None.  Quotes are replaced in the fenced case only, and
\* text that is not JSON gives "Error: invalid JSON format.".
C7_ExtractionPriority ==
    ToolReturned =>
        LET tags == HasKind(response, "open") /\ HasKind(response, "close")
            fenced == HasKind(response, "fence")
            tagged == FirstMatch(response, "open", "close")
            block == FirstMatch(response, "fence", "fence")
        IN /\ (tags /\ tagged.found) =>
                result = Process(tool_functions, tagged.body)
           /\ (~tags /\ fenced /\ block.found) =>
                result = Process(tool_functions, ReplaceQuotes(block.body))
           /\ (~tags /\ ~fenced /\ BeginsWithBrace(response)) =>
                result = Process(tool_functions, Strip(response))
           /\ (~tags /\ ~fenced /\ ~BeginsWithBrace(response)) => result = RNone

\* a response with a complete fenced block before a tag pair was answered
\* from the tag pair
C7_Witness ==
    /\ ToolReturned
    /\ response = <<Fence>> \o Other \o <<Fence, Open>>
                  \o Lex(CallOf(JStr("f"), "arguments", JObj(<<<<"x", JNum(1)>>>>)), "dq")
                  \o <<Close>>
    /\ result = RStr("{\"y\": 2}\n")


(***************************************************************************)
(* CodeAgent properties.  A step of the agent is written as a relation     *)
(* between the state before the call and the state after it.               *)
(***************************************************************************)
\* C8: a response with a fence but no fence tagged python gets the
\* formatting error; otherwise no python-tagged block gives None, more than
\* one gives the "multiple code blocks" error with nothing compiled or run,
\* and code is compiled and run only when there is exactly one.
C8_OneBlockPerTurn ==
    CodeReturned =>
        LET fenced == HasKind(response, "fence")
            tagged == HasPyFence(response)
            nblocks == Len(PyBlocks(response, 1))
        IN /\ (fenced /\ ~tagged) =>
                result = RStr("Error: code block must be formatted as '''python ... '''")
           /\ (~(fenced /\ ~tagged) /\ nblocks = 0) => result = RNone
           /\ nblocks > 1 =>
                /\ result = RStr("Error: multiple code blocks found")
                /\ ~ran.compiled /\ ~ran.executed /\ invoked = <<>>
           /\ (ran.compiled \/ ran.executed) => nblocks = 1
           /\ nblocks = 1 => ran.compiled

\* two python blocks, each of them valid, were rejected unrun
C8_Witness ==
    /\ CodeReturned
    /\ Len(PyBlocks(response, 1)) = 2
    /\ CompileErrors(PyBlocks(response, 1)[1]) = <<>>
    /\ result = RStr("Error: multiple code blocks found")
    /\ ~ran.executed

\* the statements of the one block of a response, and the name its first
\* statement reads
ProgramOf(resp) == StmtsOf(PyBlocks(resp, 1)[1])
FirstReads(resp, name) ==
    /\ Len(PyBlocks(resp, 1)) = 1
    /\ ProgramOf(resp) # <<>>
    /\ ProgramOf(resp)[1].op \in {"copy", "print"}
    /\ ProgramOf(resp)[1].arg = name
UserNames(locals) == DictKeys(locals) \ {"_print"}
CodeHandleStep == agent = "code" /\ op' = "handle"

\* C9: over handle_response and reset calls on one CodeAgent, a name bound
\* by an executed block stays bound, and readable by later blocks, until
\* reset; reset unbinds every name and leaves the registry and the sandbox
\* globals as they were; a block that then reads a name bound before the
\* reset gets "Error: name '...' is not defined".
C9_Step ==
    /\ CodeHandleStep =>
         /\ UserNames(sandbox_locals) \subseteq UserNames(sandbox_locals')
         /\ \A name \in UserNames(sandbox_locals) :
              (ran'.executed /\ FirstReads(response', name)) =>
                 result' # RStr("Error: name '" \o name \o "' is not defined")
         /\ \A name \in cleared :
              (/\ ran'.executed
               /\ FirstReads(response', name)
               /\ ~DictHas(sandbox_locals, name)
               /\ ~DictHas(sandbox_globals, name)) =>
                 result' = RStr("Error: name '" \o name \o "' is not defined")
    /\ op' = "consume" => sandbox_locals' = sandbox_locals
    /\ op' = "reset" =>
         /\ sandbox_locals' = <<>>
         /\ tool_functions' = tool_functions
         /\ sandbox_globals' = sandbox_globals
C9_SessionPersistence == [][C9_Step]_vars

\* x was bound, then reset was called, then a block reading x got the
\* name error
C9_Witness ==
    /\ CodeReturned
    /\ "x" \in cleared
    /\ ran.executed
    /\ FirstReads(response, "x")
    /\ result = RStr("Error: name 'x' is not defined")

\* C10: a handle_response call that runs a block to completion without any
\* print being executed in that call returns "Error: No print statement
\* executed in code block.", whatever calls came before it.
C10_MissingPrint ==
    (CodeReturned /\ ran.completed /\ ~ran.printed) =>
        result = RStr("Error: No print statement executed in code block.")

\* what the print statements of a block write, in order: str(value) and a
\* newline each; every value a block can print is the 7 returned by n()
RECURSIVE PrintedPieces(_)
PrintedPieces(stmts) ==
    IF stmts = <<>> THEN <<>>
    ELSE (CASE Head(stmts).op = "print" -> <<"7", "\n">>
            [] Head(stmts).op = "printnl" -> <<"\n">>
            [] OTHER -> <<>>)
         \o PrintedPieces(Tail(stmts))

\* C11: when a block runs to completion and the session holds a capture
\* object, handle_response returns the trimmed captured text, or "Error:
\* result string is empty." when that text is blank, and the capture object
\* is gone from the session bindings when the call returns; the text of a
\* block that prints is the text of that block's prints only.
C11_Step ==
    (/\ CodeHandleStep
     /\ ran'.completed
     /\ UsesPrint(ProgramOf(response')) \/ DictHas(sandbox_locals, "_print")) =>
        LET captured == IF UsesPrint(ProgramOf(response'))
                        THEN PrintedPieces(ProgramOf(response'))
                        ELSE DictGet(sandbox_locals, "_print").txt
            trimmed == StripPieces(captured)
        IN /\ result' = RStr(IF Len(trimmed) > 0 THEN trimmed
                             ELSE "Error: result string is empty.")
           /\ ~DictHas(sandbox_locals', "_print")
           /\ UserNames(sandbox_locals) \subseteq UserNames(sandbox_locals')
C11_OutputChannel == [][C11_Step]_vars

\* a block that copied a value bound by an earlier block and printed it:
\* the result is the printed text and the capture object is gone
C11_Witness ==
    /\ CodeReturned
    /\ ran.completed /\ ran.printed
    /\ Len(ProgramOf(response)) = 2
    /\ ProgramOf(response)[1].op = "copy"
    /\ result = RStr("7")
    /\ ~DictHas(sandbox_locals, "_print")
    /\ DictHas(sandbox_locals, "y")

(***************************************************************************)
(* Registry construction and the stubs shown to the model.                 *)
(***************************************************************************)
\* the mapping equivalent to a list of functions: one entry per declared
\* name, in the order the names first occur, holding the last function of
\* that name
LastOf(funcs, name) ==
    funcs[Max({j \in 1..Len(funcs) : FuncName(funcs[j]) = name})]
FirstOccurrences(funcs) ==
    SelectSeq([i \in 1..Len(funcs) |-> i],
              LAMBDA i : \A j \in 1..(i - 1) : FuncName(funcs[j]) # FuncName(funcs[i]))
KeyedByName(funcs) ==
    [k \in 1..Len(FirstOccurrences(funcs)) |->
       <<FuncName(funcs[FirstOccurrences(funcs)[k]]),
         LastOf(funcs, FuncName(funcs[FirstOccurrences(funcs)[k]]))>>]
PromptReturned == agent = "code" /\ op = "prompt"

\* C12: an agent built from a list of functions has the registry, the
\* schema list (ToolAgent.tools) and the stub block (the result of
\* CodeAgent.format_system_prompt) of the agent built from the equivalent
\* mapping keyed by declared name; of several functions with one name the
\* last is the one registered.
C12_ConstructionEquivalence ==
    given.kind = "list" =>
        LET mapping == DictArg(KeyedByName(given.funcs)) IN
        /\ tool_functions = MakeRegistry(mapping)
        /\ agent = "tool" => tools = MakeTools(MakeRegistry(mapping))
        /\ PromptReturned =>
             result = format_system_prompt(MakeRegistry(mapping), response)
        /\ \A i \in 1..Len(given.funcs) :
             DictGet(tool_functions, FuncName(given.funcs[i]))
               = LastOf(given.funcs, FuncName(given.funcs[i]))

\* the list held two functions named f; the prompt was formatted and shows
\* the stub of the second
C12_Witness ==
    /\ PromptReturned
    /\ given = ListArg(<<"f", "n", "f2">>)
    /\ DictKeys(tool_functions) = {"f", "n"}
    /\ DictGet(tool_functions, "f") = "f2"
    /\ result = RStr("Functions:\n'''python\ndef f(x: int):\n    pass\n\ndef n():\n    \"\"\"\n    Return seven.\n    Always.\n    \"\"\"\n    pass\n'''")

(***************************************************************************)
(* Properties of the conversation loop (LoopSpec).                         *)
(***************************************************************************)
\* C13: the loop runs with either class of agent: no call the loop makes
\* on its agent (format_system_prompt at startup, handle_response each
\* turn, reset on /clear) ends the program because the agent's class does
\* not define the method.
C13_Interchangeable ==
    At("crashed") => result # RRaise("AttributeError")

Generates == loop'.generated = loop.generated + 1
Handles == loop'.handled = loop.handled + 1

\* C14: each generated response is passed to handle_response once, before
\* the next generation; a result that is not None is added to the
\* conversation under the tool role and is the next request, with no input
\* read in between; after None the loop reads the user's input before it
\* generates again; /exit, /clear, other commands and the empty line lead
\* to no generation and no handle_response call.
C14_Step ==
    /\ loop'.generated \in {loop.generated, loop.generated + 1}
    /\ loop'.handled \in {loop.handled, loop.handled + 1}
    /\ Generates =>
         /\ At("generate") /\ loop.handled = loop.generated
         /\ ~Handles
         /\ loop.request # None
         /\ loop'.prompt = loop.prompt
    /\ Handles =>
         /\ At("handle") /\ loop.generated = loop.handled + 1
         /\ op' = "handle" /\ response' = loop.response
         /\ loop'.prompt = loop.prompt
         /\ result'.kind = "str" =>
              /\ loop'.pc = "generate"
              /\ loop'.request = Msg(loop.tool_role, <<Tok("result", result'.s)>>)
              /\ loop'.conversation = loop.conversation \o loop'.request
         /\ result' = RNone =>
              /\ loop'.pc = "input"
              /\ loop'.request = None
              /\ loop'.conversation = loop.conversation
    /\ ~Handles => invoked' = invoked /\ ran' = ran /\ response' \in {response, NoPrompt}
    /\ At("generate") => Generates
    /\ At("handle") => Handles
    /\ At("input") =>
         /\ ~Generates /\ ~Handles
         /\ IsCommandOrEmpty(loop'.prompt) => loop'.pc \in {"input", "exited", "crashed"}
         /\ loop'.pc = "generate" => loop'.request = Msg("user", loop'.prompt)
C14_TurnProtocol == [][C14_Step]_vars

\* one question, two generations: the first result was fed back as the
\* request of the second generation, whose result is the next request
C14_Witness ==
    /\ At("generate")
    /\ loop.generated = 2 /\ loop.handled = 2
    /\ Len(loop.conversation) = 5
    /\ loop.conversation[3].role = loop.tool_role
    /\ result.kind = "str"
    /\ loop.request = Msg(loop.tool_role, <<Tok("result", result.s)>>)

(***************************************************************************)
(* Invocation order of ToolAgent.handle_response.                          *)
(***************************************************************************)
Invocation(at, fid, kind) == [at |-> at, fid |-> fid, kind |-> kind]
\* the invocations of elements 1..last of a batch whose calls all return
InvocationsUpTo(reg, calls, last) ==
    [i \in 1..last |-> Invocation(i, ElFunc(reg, calls[i]), "ok")]

\* C15: with the first failing element of the batch at position k, the
\* functions of elements 1..k-1 were invoked once each, in batch order,
\* and no function of an element after k was; of element k itself the
\* function was invoked once if the failure is inside or after its call
\* (not when the arguments did not bind), and not at all otherwise.  Without a failing element every element's
\* function was invoked once, in batch order.
C15_InvocationOrder ==
    (ToolReturned /\ Parsed(response).ok) =>
        LET calls == BatchOf(response)
            k == FirstFailing(tool_functions, calls)
            failure == IF k = 0 THEN "ok" ELSE ElFailure(tool_functions, calls[k])
        IN IF k = 0
           THEN invoked = InvocationsUpTo(tool_functions, calls, Len(calls))
           ELSE /\ SelectSeq(invoked, LAMBDA e : e.at < k)
                     = InvocationsUpTo(tool_functions, calls, k - 1)
                /\ \A j \in 1..Len(invoked) : invoked[j].at <= k
                /\ SelectSeq(invoked, LAMBDA e : e.at = k)
                     = IF failure = "raised" /\ ElCall(tool_functions, calls[k]).entered
                       THEN <<Invocation(k, ElFunc(tool_functions, calls[k]), "raise")>>
                       ELSE IF failure = "not serializable"
                       THEN <<Invocation(k, ElFunc(tool_functions, calls[k]), "ok")>>
                       ELSE <<>>
                /\ (k > 1 /\ failure # "crash") =>
                     result = RStr(ElError(tool_functions, calls[k]))

\* n ran as the first element although the second element names no
\* registered function, and the error is all that came back
C15_Witness ==
    /\ ToolReturned
    /\ Parsed(response).ok
    /\ Len(BatchOf(response)) = 2
    /\ FirstFailing(tool_functions, BatchOf(response)) = 2
    /\ ElFailure(tool_functions, BatchOf(response)[2]) = "missing name"
    /\ invoked = <<Invocation(1, "n", "ok")>>
    /\ result = RStr("Error: missing function name in function call.")

(***************************************************************************)
(* Frame conditions of CodeAgent.                                          *)
(***************************************************************************)
\* the "Compilation errors:" diagnostics of the blocks given: one line per
\* rejected statement, in source order (the first statement is on line 2)
RECURSIVE DiagnosticLines(_)
DiagnosticLines(S) ==
    IF S = {} THEN <<>>
    ELSE <<"Line " \o NumStr(Min(S))
           \o ": \"_x\" is an invalid variable name because it starts with \"_\"">>
         \o DiagnosticLines(S \ {Min(S)})
CompileDiagnostics ==
    { "Compilation errors:\n" \o JoinStr(DiagnosticLines(S), "\n") :
        S \in (SUBSET (2..(MaxStmts + 1))) \ {{}} }
RunsNothing(res) ==
    \/ res = RNone
    \/ res = RStr("Error: code block must be formatted as '''python ... '''")
    \/ res = RStr("Error: multiple code blocks found")
    \/ res.kind = "str" /\ res.s \in CompileDiagnostics

\* C16: a CodeAgent.handle_response call that returns None, the formatting
\* error, the "multiple code blocks" error or a "Compilation errors:"
\* diagnostic executes nothing and leaves the session bindings as they
\* were; format_system_prompt changes neither the session bindings nor
\* the registry.
C16_Step ==
    /\ (CodeHandleStep /\ RunsNothing(result')) =>
         /\ sandbox_locals' = sandbox_locals
         /\ ~ran'.executed
         /\ invoked' = <<>>
         /\ tool_functions' = tool_functions /\ sandbox_globals' = sandbox_globals
    /\ (agent = "code" /\ op' = "prompt") =>
         /\ sandbox_locals' = sandbox_locals
         /\ tool_functions' = tool_functions
         /\ sandbox_globals' = sandbox_globals
    /\ (CodeHandleStep /\ Len(PyBlocks(response', 1)) = 1
        /\ \E i \in 1..Len(ProgramOf(response')) : ProgramOf(response')[i].op = "badname") =>
         RunsNothing(result')
C16_Frame == [][C16_Step]_vars

\* a block was rejected by the compiler while the session held bindings
C16_Witness ==
    /\ CodeReturned
    /\ result = RStr("Compilation errors:\nLine 3: \"_x\" is an invalid variable name because it starts with \"_\"")
    /\ DictHas(sandbox_locals, "x")
    /\ ~ran.executed

\* the stub of a function as it reads when headed by a given name
StubHeadedBy(fid, name) ==
    "def " \o name \o SignatureText(fid) \o ":\n"
    \o (IF FuncDoc(fid) # <<>>
        THEN "    \"\"\"\n" \o DocLines(FuncDoc(fid)) \o "    \"\"\"\n"
        ELSE "")
    \o "    pass"
\* the name a JSON stub shows
StubName(stub) == DictGet(DictGet(stub.pairs, "function").pairs, "name").s

\* C17: every function name shown to the model is a name under which that
\* function can be called: each stub of ToolAgent.tools names a registry
\* key that holds the stub's function, and each stub in the prompt of
\* CodeAgent.format_system_prompt is headed by a name that the sandbox
\* globals bind to the stub's function.
C17_AdvertisedNamesResolve ==
    /\ agent = "tool" =>
         \A i \in 1..Len(tools) :
            /\ DictHas(tool_functions, StubName(tools[i]))
            /\ tools[i] = json_function_stub(StubName(tools[i]),
                                             DictGet(tool_functions, StubName(tools[i])))
    /\ (PromptReturned /\ result.kind = "str") =>
         \A i \in 1..Len(tool_functions) :
            \E name \in DictKeys(sandbox_globals) :
               /\ DictGet(sandbox_globals, name) = FuncObj(tool_functions[i][2])
               /\ code_function_stub(tool_functions[i][2])
                    = StubHeadedBy(tool_functions[i][2], name)
====
